---- MODULE Spec2Model ----
(***************************************************************************)
(* StrideBuddy presence and messaging server (stridebuddy/server/app.py): *)
(* the in-memory presence maps ONLINE and ACTIVE, the per-recipient        *)
(* mailboxes MESSAGE_QUEUES, and the heartbeat, status, send and poll      *)
(* request handlers, run by the request threads of the Flask server.       *)
(* The client side (stridebuddy/ui) is the network worker's loop of        *)
(* buddy_list.py, the handlers of its signals, and the message window.     *)
(*                                                                         *)
(* Strings are sequences of one-character strings, so that strip() and     *)
(* split(",") are computed and not assumed.  Times are in milliseconds.    *)
(* Python lists are objects of a heap: a mailbox entry and a handler's     *)
(* local variable may name the same list, or a list that the dictionary    *)
(* no longer holds.                                                        *)
(***************************************************************************)
EXTENDS Integers, Sequences, FiniteSets, TLC

\* ------------------------------------------------------------------ bounds
NumThreads == 2      \* request threads of the server
MaxReq == 3          \* requests admitted in one run
MaxEffort == 6       \* iterations of the client worker: one whose heartbeat is
                     \* answered counts AnsweredCost, one whose heartbeat fails counts 1
MaxSends == 2        \* messages the peer sends to the client's user
MaxTyped == 2        \* texts entered in a message window
StartTime == 10000   \* the clock when the client starts, in ms

Threads == 1..NumThreads
AnsweredCost == MaxEffort \div 2

\* ------------------------------------------------------------------ strings
A == <<"a">>
B == <<"b">>
G == <<"g">>
NoUser == <<>>       \* session.get("user") of a request without a session

IsSpace(c) == c = " "

RECURSIVE LStrip(_)
LStrip(s) == IF s # <<>> /\ IsSpace(Head(s)) THEN LStrip(Tail(s)) ELSE s

RECURSIVE RStrip(_)
RStrip(s) ==
    IF s # <<>> /\ IsSpace(s[Len(s)]) THEN RStrip(SubSeq(s, 1, Len(s) - 1)) ELSE s

\* str.strip()
Strip(s) == RStrip(LStrip(s))

\* str.split(","): the pieces between the commas, empty pieces included
RECURSIVE SplitComma(_, _)
SplitComma(s, cur) ==
    IF s = <<>> THEN <<cur>>
    ELSE IF Head(s) = "," THEN <<cur>> \o SplitComma(Tail(s), <<>>)
    ELSE SplitComma(Tail(s), Append(cur, Head(s)))

NonEmptyStr(s) == s # <<>>

\* names = [n for n in (names_param.split(",") if names_param else []) if n]
ParseNames(raw) ==
    LET names_param == Strip(raw)
    IN  IF names_param = <<>> THEN <<>>
        ELSE SelectSeq(SplitComma(names_param, <<>>), NonEmptyStr)

\* ------------------------------------------------------------------ JSON values
JAbsent == [k |-> "absent", s |-> <<>>, n |-> 0]
JNull == [k |-> "null", s |-> <<>>, n |-> 0]
JStr(s) == [k |-> "str", s |-> s, n |-> 0]
JNum(n) == [k |-> "num", s |-> <<>>, n |-> n]
JBool(b) == [k |-> "bool", s |-> <<>>, n |-> IF b THEN 1 ELSE 0]

\* Python truth value of a value read with dict.get (a missing key reads None)
Truthy(v) ==
    CASE v.k = "str" -> v.s # <<>>
      [] v.k = "num" -> v.n # 0
      [] v.k = "bool" -> v.n = 1
      [] OTHER -> FALSE

\* (x or "")
OrEmpty(v) == IF Truthy(v) THEN v ELSE JStr(<<>>)

\* a request body: a JSON object, a non-empty JSON array, or no JSON at all
\* (from is a key no handler reads; a client may still put it in the body)
ObjBody(to, content, html, active) ==
    [k |-> "obj", to |-> to, content |-> content, content_html |-> html, active |-> active,
     from |-> JAbsent]
ArrBody == [k |-> "arr", to |-> JAbsent, content |-> JAbsent, content_html |-> JAbsent,
            active |-> JAbsent, from |-> JAbsent]
NoBody == [k |-> "none", to |-> JAbsent, content |-> JAbsent, content_html |-> JAbsent,
           active |-> JAbsent, from |-> JAbsent]

\* data = request.get_json(silent=True) or {} ; an array has no .get
IsDict(body) == body.k # "arr"

\* ------------------------------------------------------------------ program constants
OnlineWindowMs == 20000
IdleWindowMs == 300000
SleepMs == 400
ServerMaxTimeout == 30
DefaultTimeout == 15

\* ------------------------------------------------------------------ inputs
SessionUsers == {A, B}
Sessions == SessionUsers \cup {NoUser}

Instants == {0, 20000, 300000}

ActiveVals == {JAbsent, JBool(TRUE), JBool(FALSE)}
BeatBodies == {ObjBody(JAbsent, JAbsent, JAbsent, a) : a \in ActiveVals} \cup {ArrBody}

NamesParams == {<<>>, <<"a", ",", "b">>, <<" ", "b", ",", ",", "g">>}

SendBodies ==
    { ObjBody(JStr(<<" ", "b">>), JStr(<<"x", " ">>), JAbsent, JAbsent),
      [ObjBody(JStr(G), JStr(<<"x">>), JStr(<<"h", " ">>), JAbsent) EXCEPT !.from = JStr(G)],
      ObjBody(JAbsent, JStr(<<"x">>), JAbsent, JAbsent),
      ObjBody(JStr(<<" ">>), JStr(<<"x">>), JAbsent, JAbsent),
      ObjBody(JStr(B), JNull, JAbsent, JAbsent),
      ObjBody(JStr(B), JStr(<<" ", " ">>), JAbsent, JAbsent),
      ObjBody(JNum(5), JStr(<<"x">>), JAbsent, JAbsent),
      ObjBody(JStr(B), JNum(7), JAbsent, JAbsent),
      ArrBody, NoBody }

TimeoutAbsent == [k |-> "absent", n |-> 0]
TimeoutInt(n) == [k |-> "int", n |-> n]
TimeoutBad == [k |-> "bad", n |-> 0]
TimeoutArgs == {TimeoutInt(0 - 1), TimeoutInt(0), TimeoutInt(1), TimeoutBad}

\* the query string of a poll: its timeout and its screen_name (<<>>: not given)
PollQuery(timeout, screen_name) == [timeout |-> timeout, screen_name |-> screen_name]
NoQuery == PollQuery(TimeoutAbsent, <<>>)
\* the polls that wait name another user's mailbox, the others name none
PollQueries ==
    {PollQuery(a, IF a = TimeoutInt(1) THEN G ELSE <<>>) : a \in TimeoutArgs}

Min(a, b) == IF a < b THEN a ELSE b


\* ------------------------------------------------------------------ state
VARIABLES
    now,             \* the clock read by datetime.utcnow() and time.time(), in ms
    ONLINE,          \* dict screen name -> time of the last heartbeat
    ACTIVE,          \* dict screen name -> time of the last active heartbeat
    MESSAGE_QUEUES,  \* dict screen name -> reference to a list of the heap
    heap,            \* the list objects: heap[ref] is the content of list ref
    pc,              \* where each request thread stands in its handler
    loc,             \* the local variables of each request thread's handler
    resp,            \* the response the server sent last
    mode,            \* "serial": one request at a time; "threaded": interleaved
    reqs,            \* requests admitted so far
    hist,            \* history: acknowledged sends and poll responses, in order
    beat             \* history: per user, times of the last heartbeat, of the last
                     \* heartbeat whose active flag was true and of the first
                     \* heartbeat (-1: none)

\* the desktop client (stridebuddy/ui): the network worker of the buddy list, the
\* signals it emits to the UI thread, and the windows of the UI
VARIABLES
    w,               \* the local variables of _NetWorker.run and where it stands
    running,         \* _NetWorker._running
    signals,         \* signals emitted by the worker, not yet handled by the UI thread
    conn_label,      \* text of BuddyListWindow.conn_label
    buddy_flags,     \* BuddyListWindow._buddy_flags: name -> [muted, blocked]
    tree,            \* the status shown next to each buddy of the list
    open_msgs,       \* BuddyListWindow._open_msgs: the message windows, in order
    tray,            \* ids of the messages shown as tray notifications
    delivered,       \* history: ids of the messages handed to _deliver_incoming
    round,           \* history: what the worker did in its current iteration
    fails,           \* history: heartbeats that failed since the last answered one
    effort,          \* history: the iterations begun, weighted
    typed            \* history: texts entered in message windows

svars == <<now, ONLINE, ACTIVE, MESSAGE_QUEUES, heap, pc, loc, resp, mode, reqs, hist, beat>>

cvars == <<w, running, signals, conn_label, buddy_flags, tree, open_msgs, tray, delivered,
           round, fails, effort, typed>>

vars == <<now, ONLINE, ACTIVE, MESSAGE_QUEUES, heap, pc, loc, resp, mode, reqs, hist, beat,
          w, running, signals, conn_label, buddy_flags, tree, open_msgs, tray, delivered,
          round, fails, effort, typed>>

EmptyDict == [x \in {} |-> 0]

\* d[k] = v
Put(d, k, v) == [x \in (DOMAIN d) \cup {k} |-> IF x = k THEN v ELSE d[x]]

NoMsg == [from |-> <<>>, to |-> <<>>, content |-> <<>>, content_html |-> <<>>,
          ts |-> 0, id |-> 0]

\* user .. msg are the handler's variables; wake is when its sleep ends; body, slept
\* and atStart remember the request body, the sleeps taken and the mailbox found,
\* caller, query and began the session, the query string and the time of entry
IdleLoc == [user |-> NoUser, deadline |-> 0, queue |-> 0, out |-> <<>>, msg |-> NoMsg,
            wake |-> 0, body |-> NoBody, slept |-> 0, atStart |-> <<>>,
            caller |-> NoUser, query |-> NoQuery, began |-> 0]

Response(op, sess, code, ok, error, messages, statuses) ==
    [op |-> op, sess |-> sess, req |-> NoBody, screen_name |-> <<>>, code |-> code, ok |-> ok,
     error |-> error, messages |-> messages, statuses |-> statuses, typing |-> <<>>,
     online |-> {}]

\* the response to a request that carried a body
To(body, r) == [r EXCEPT !.req = body]

\* the response to a poll whose query string was q
Asked(q, r) == [r EXCEPT !.screen_name = q.screen_name]

NoResp == Response("none", NoUser, 0, FALSE, "", <<>>, EmptyDict)

\* jsonify({"ok": False, "error": "unauthorized"}), 401
Unauthorized(op) == Response(op, NoUser, 401, FALSE, "unauthorized", <<>>, EmptyDict)

\* an exception leaves the handler: Flask answers 500 with an HTML error page
Crash(op, sess) == Response(op, sess, 500, FALSE, "internal", <<>>, EmptyDict)

\* jsonify({"ok": True})
Ack(op, sess) == Response(op, sess, 200, TRUE, "", <<>>, EmptyDict)

\* the list a mailbox entry names; no entry reads as no pending message
Mailbox(name) ==
    IF name \in DOMAIN MESSAGE_QUEUES THEN heap[MESSAGE_QUEUES[name]] ELSE <<>>

Ids(msgs) == [i \in 1..Len(msgs) |-> msgs[i].id]

\* the client as constructed: BuddyListWindow.__init__ and _NetWorker.__init__
\* (run() sets last_online_check = last_typing_check = 0.0 and backoff = 1.0)
NewWorker ==
    [pc |-> "top", now |-> 0, last_online_check |-> 0, last_typing_check |-> 0,
     backoff |-> 1, wake |-> 0, thread |-> 0, reply |-> NoResp]

\* beat .. sent are about the current iteration; status_at is the start time of the
\* iteration that issued the last status request (-1: none yet)
NewRound == [beat |-> "none", reports |-> <<>>, codes |-> <<>>, sent |-> <<>>,
             status_at |-> 0 - 1]

ClientInit(flags) ==
    /\ w = NewWorker
    /\ running = TRUE
    /\ signals = <<>>
    /\ conn_label = ""
    /\ buddy_flags = flags
    /\ tree = [n \in DOMAIN flags |-> "away"]
    /\ open_msgs = <<>>
    /\ tray = <<>>
    /\ delivered = <<>>
    /\ round = NewRound
    /\ fails = 0
    /\ effort = 0
    /\ typed = 0

Init ==
    /\ ClientInit(EmptyDict)
    /\ now = 0
    /\ ONLINE = EmptyDict
    /\ ACTIVE = EmptyDict
    /\ MESSAGE_QUEUES = EmptyDict
    /\ heap = <<>>
    /\ pc = [t \in Threads |-> "idle"]
    /\ loc = [t \in Threads |-> IdleLoc]
    /\ resp = NoResp
    /\ mode = "serial"
    /\ reqs = 0
    /\ hist = <<>>
    /\ beat = [u \in SessionUsers |-> [hb |-> 0 - 1, act |-> 0 - 1, first |-> 0 - 1]]

\* app.run(debug=False) serves each request in its own thread
InitThreaded ==
    /\ ClientInit(EmptyDict)
    /\ now = 0
    /\ ONLINE = EmptyDict
    /\ ACTIVE = EmptyDict
    /\ MESSAGE_QUEUES = EmptyDict
    /\ heap = <<>>
    /\ pc = [t \in Threads |-> "idle"]
    /\ loc = [t \in Threads |-> IdleLoc]
    /\ resp = NoResp
    /\ mode = "threaded"
    /\ reqs = 0
    /\ hist = <<>>
    /\ beat = [u \in SessionUsers |-> [hb |-> 0 - 1, act |-> 0 - 1, first |-> 0 - 1]]

\* thread t may take a request: the first free thread takes it
CanStart(t) ==
    /\ pc[t] = "idle"
    /\ \A u \in Threads : u < t => pc[u] # "idle"
    /\ mode # "client" => reqs < MaxReq
    /\ mode = "serial" => \A u \in Threads : pc[u] = "idle"

\* the threads that may take a request
Free == {t \in Threads : CanStart(t)}

Stores == <<ONLINE, ACTIVE, MESSAGE_QUEUES, heap>>

\* ------------------------------------------------------------------ presence
\* the history of heartbeats, from the request alone
BeatHistory(sess, body) ==
    [beat EXCEPT ![sess] =
        [hb |-> now,
         act |-> IF body.k = "obj" /\ Truthy(body.active) THEN now ELSE @.act,
         first |-> IF @.first < 0 THEN now ELSE @.first]]

\* a heartbeat that refreshes last_active whatever the active flag says
Heartbeat_AlwaysActive(t, sess, body) ==
    /\ CanStart(t)
    /\ reqs' = reqs + 1
    /\ IF sess = NoUser
       THEN /\ resp' = Unauthorized("heartbeat")
            /\ UNCHANGED <<ONLINE, ACTIVE, beat>>
       ELSE /\ ONLINE' = Put(ONLINE, sess, now)
            /\ beat' = BeatHistory(sess, body)
            /\ ACTIVE' = Put(ACTIVE, sess, now)
            /\ resp' = To(body, IF IsDict(body) THEN Ack("heartbeat", sess)
                                ELSE Crash("heartbeat", sess))
    /\ UNCHANGED <<now, MESSAGE_QUEUES, heap, pc, loc, mode, hist>>

\* POST /api/presence/heartbeat
Heartbeat(t, sess, body) ==
    /\ CanStart(t)
    /\ reqs' = reqs + 1
    /\ IF sess = NoUser
       THEN /\ resp' = Unauthorized("heartbeat")
            /\ UNCHANGED <<ONLINE, ACTIVE, beat>>
       ELSE /\ ONLINE' = Put(ONLINE, sess, now)
            /\ beat' = BeatHistory(sess, body)
            /\ IF IsDict(body)
               THEN /\ ACTIVE' = IF Truthy(body.active) THEN Put(ACTIVE, sess, now)
                                 ELSE ACTIVE
                    /\ resp' = To(body, Ack("heartbeat", sess))
               ELSE /\ ACTIVE' = ACTIVE
                    /\ resp' = To(body, Crash("heartbeat", sess))
    /\ UNCHANGED <<now, MESSAGE_QUEUES, heap, pc, loc, mode, hist>>

\* a status that turns away only after more than the idle window
StatusOf_IdleStrict(name) ==
    IF name \notin DOMAIN ONLINE \/ (now - ONLINE[name]) > OnlineWindowMs
    THEN "offline"
    ELSE LET last_active == IF name \in DOMAIN ACTIVE THEN ACTIVE[name] ELSE ONLINE[name]
         IN  IF (now - last_active) > IdleWindowMs THEN "away" ELSE "online"

\* a status that reads a name without a presence entry as seen just now
StatusOf_UnknownOnline(name) ==
    LET last == IF name \in DOMAIN ONLINE THEN ONLINE[name] ELSE now
    IN  IF (now - last) > OnlineWindowMs
        THEN "offline"
        ELSE LET last_active == IF name \in DOMAIN ACTIVE THEN ACTIVE[name] ELSE last
             IN  IF (now - last_active) >= IdleWindowMs THEN "away" ELSE "online"

\* a status that reads a user without a last_active entry as away
StatusOf_NoFallback(name) ==
    IF name \notin DOMAIN ONLINE \/ (now - ONLINE[name]) > OnlineWindowMs
    THEN "offline"
    ELSE IF name \notin DOMAIN ACTIVE \/ (now - ACTIVE[name]) >= IdleWindowMs
         THEN "away" ELSE "online"

\* the status of one name at the time of the query
StatusOf(name) ==
    IF name \notin DOMAIN ONLINE \/ (now - ONLINE[name]) > OnlineWindowMs
    THEN "offline"
    ELSE LET last_active == IF name \in DOMAIN ACTIVE THEN ACTIVE[name] ELSE ONLINE[name]
         IN  IF (now - last_active) >= IdleWindowMs THEN "away" ELSE "online"

Range(s) == {s[i] : i \in 1..Len(s)}

\* GET /api/presence/status: no session is read
Status(t, sess, raw) ==
    /\ CanStart(t)
    /\ reqs' = reqs + 1
    /\ resp' = (Response("status", sess, 200, TRUE, "", <<>>,
                    [n \in Range(ParseNames(raw)) |-> StatusOf(n)]))
    /\ UNCHANGED <<now, ONLINE, ACTIVE, MESSAGE_QUEUES, heap, pc, loc, mode, hist, beat>>


\* [name for name, ts in ONLINE.items() if (now - ts) < timedelta(seconds=20)],
\* as the set of its names: the order of the dictionary is not kept
OnlineNames == {name \in DOMAIN ONLINE : (now - ONLINE[name]) < OnlineWindowMs}

\* GET /api/presence/online: no session is read
Online(t, sess) ==
    /\ CanStart(t)
    /\ reqs' = reqs + 1
    /\ resp' = [Response("online", sess, 200, TRUE, "", <<>>, EmptyDict)
                   EXCEPT !.online = OnlineNames]
    /\ UNCHANGED <<now, ONLINE, ACTIVE, MESSAGE_QUEUES, heap, pc, loc, mode, hist, beat>>

\* a request for a path create_app registers no route for: Flask answers 404
NoRoute(t, sess, op) ==
    /\ CanStart(t)
    /\ reqs' = reqs + 1
    /\ resp' = Response(op, sess, 404, FALSE, "not found", <<>>, EmptyDict)
    /\ UNCHANGED <<now, ONLINE, ACTIVE, MESSAGE_QUEUES, heap, pc, loc, mode, hist, beat>>

\* ------------------------------------------------------------------ send
\* the messages built so far: those acknowledged and those about to be appended
Created ==
    Cardinality({i \in 1..Len(hist) : hist[i].kind = "send"})
        + Cardinality({t \in Threads : pc[t] = "s_append"})

\* a send that takes the sender from the body when the body names one
SendStart_FromBody(t, sess, body) ==
    /\ CanStart(t)
    /\ reqs' = reqs + 1
    /\ IF sess = NoUser
       THEN /\ resp' = (Unauthorized("send"))
            /\ UNCHANGED <<MESSAGE_QUEUES, heap, pc, loc>>
       ELSE IF \/ ~IsDict(body)
               \/ OrEmpty(body.to).k # "str"
               \/ OrEmpty(body.content).k # "str"
               \/ OrEmpty(body.content_html).k # "str"
       THEN \* data.get or .strip() raises AttributeError
            /\ resp' = To(body, Crash("send", sess))
            /\ UNCHANGED <<MESSAGE_QUEUES, heap, pc, loc>>
       ELSE LET to == Strip(OrEmpty(body.to).s)
                content == Strip(OrEmpty(body.content).s)
                content_html == Strip(OrEmpty(body.content_html).s)
                msg == [from |-> IF Truthy(body.from) THEN body.from.s ELSE sess, to |-> to, content |-> content,
                        content_html |-> content_html, ts |-> now,
                        id |-> Created + 1]
            IN  IF to = <<>> \/ content = <<>>
                THEN /\ resp' = To(body, Response("send", sess, 400, FALSE,
                                              "to and content required", <<>>, EmptyDict))
                     /\ UNCHANGED <<MESSAGE_QUEUES, heap, pc, loc>>
                ELSE /\ IF to \in DOMAIN MESSAGE_QUEUES
                        THEN /\ loc' = [loc EXCEPT ![t] =
                                    [IdleLoc EXCEPT !.user = sess, !.msg = msg, !.body = body,
                                                    !.queue = MESSAGE_QUEUES[to]]]
                             /\ UNCHANGED <<MESSAGE_QUEUES, heap>>
                        ELSE /\ heap' = Append(heap, <<>>)
                             /\ MESSAGE_QUEUES' = Put(MESSAGE_QUEUES, to, Len(heap) + 1)
                             /\ loc' = [loc EXCEPT ![t] =
                                    [IdleLoc EXCEPT !.user = sess, !.msg = msg, !.body = body,
                                                    !.queue = Len(heap) + 1]]
                     /\ pc' = [pc EXCEPT ![t] = "s_append"]
                     /\ resp' = resp
    /\ UNCHANGED <<now, ONLINE, ACTIVE, mode, hist, beat>>

\* POST /api/messages/send, up to MESSAGE_QUEUES.setdefault(to, [])
SendStart(t, sess, body) ==
    /\ CanStart(t)
    /\ reqs' = reqs + 1
    /\ IF sess = NoUser
       THEN /\ resp' = (Unauthorized("send"))
            /\ UNCHANGED <<MESSAGE_QUEUES, heap, pc, loc>>
       ELSE IF \/ ~IsDict(body)
               \/ OrEmpty(body.to).k # "str"
               \/ OrEmpty(body.content).k # "str"
               \/ OrEmpty(body.content_html).k # "str"
       THEN \* data.get or .strip() raises AttributeError
            /\ resp' = To(body, Crash("send", sess))
            /\ UNCHANGED <<MESSAGE_QUEUES, heap, pc, loc>>
       ELSE LET to == Strip(OrEmpty(body.to).s)
                content == Strip(OrEmpty(body.content).s)
                content_html == Strip(OrEmpty(body.content_html).s)
                msg == [from |-> sess, to |-> to, content |-> content,
                        content_html |-> content_html, ts |-> now,
                        id |-> Created + 1]
            IN  IF to = <<>> \/ content = <<>>
                THEN /\ resp' = To(body, Response("send", sess, 400, FALSE,
                                              "to and content required", <<>>, EmptyDict))
                     /\ UNCHANGED <<MESSAGE_QUEUES, heap, pc, loc>>
                ELSE /\ IF to \in DOMAIN MESSAGE_QUEUES
                        THEN /\ loc' = [loc EXCEPT ![t] =
                                    [IdleLoc EXCEPT !.user = sess, !.msg = msg, !.body = body,
                                                    !.queue = MESSAGE_QUEUES[to]]]
                             /\ UNCHANGED <<MESSAGE_QUEUES, heap>>
                        ELSE /\ heap' = Append(heap, <<>>)
                             /\ MESSAGE_QUEUES' = Put(MESSAGE_QUEUES, to, Len(heap) + 1)
                             /\ loc' = [loc EXCEPT ![t] =
                                    [IdleLoc EXCEPT !.user = sess, !.msg = msg, !.body = body,
                                                    !.queue = Len(heap) + 1]]
                     /\ pc' = [pc EXCEPT ![t] = "s_append"]
                     /\ resp' = resp
    /\ UNCHANGED <<now, ONLINE, ACTIVE, mode, hist, beat>>

\* .append(msg) on the list setdefault returned, then jsonify({"ok": True})
SendAppend(t) ==
    /\ pc[t] = "s_append"
    /\ heap' = [heap EXCEPT ![loc[t].queue] = Append(@, loc[t].msg)]
    /\ resp' = To(loc[t].body, Ack("send", loc[t].user))
    /\ hist' = Append(hist, [kind |-> "send", who |-> loc[t].msg.to,
                             ids |-> <<loc[t].msg.id>>, by |-> loc[t].user])
    /\ pc' = [pc EXCEPT ![t] = "idle"]
    /\ loc' = [loc EXCEPT ![t] = IdleLoc]
    /\ UNCHANGED <<now, ONLINE, ACTIVE, MESSAGE_QUEUES, mode, reqs, beat>>

\* ------------------------------------------------------------------ poll
\* int(request.args.get("timeout", "15")); a value int() rejects raises ValueError
TimeoutOf(arg) == IF arg.k = "absent" THEN DefaultTimeout ELSE arg.n

\* a poll that drains the mailbox its screen_name parameter names
PollStart_ByQueryName(t, sess, q) ==
    /\ CanStart(t)
    /\ reqs' = reqs + 1
    /\ IF sess = NoUser
       THEN /\ resp' = (Unauthorized("poll"))
            /\ UNCHANGED <<pc, loc>>
       ELSE IF q.timeout.k = "bad"
       THEN /\ resp' = Asked(q, Crash("poll", sess))
            /\ UNCHANGED <<pc, loc>>
       ELSE /\ loc' = [loc EXCEPT ![t] =
                   [IdleLoc EXCEPT !.user = IF q.screen_name # <<>> THEN q.screen_name ELSE sess,
                                   !.deadline = now + Min(TimeoutOf(q.timeout), ServerMaxTimeout) * 1000,
                                   !.atStart = Mailbox(sess),
                                   !.caller = sess, !.query = q, !.began = now]]
            /\ pc' = [pc EXCEPT ![t] = "p_check"]
            /\ resp' = resp
    /\ UNCHANGED <<now, ONLINE, ACTIVE, MESSAGE_QUEUES, heap, mode, hist, beat>>

\* GET /api/messages/poll, up to deadline = time.time() + min(timeout, 30)
PollStart(t, sess, q) ==
    /\ CanStart(t)
    /\ reqs' = reqs + 1
    /\ IF sess = NoUser
       THEN /\ resp' = (Unauthorized("poll"))
            /\ UNCHANGED <<pc, loc>>
       ELSE IF q.timeout.k = "bad"
       THEN /\ resp' = Asked(q, Crash("poll", sess))
            /\ UNCHANGED <<pc, loc>>
       ELSE /\ loc' = [loc EXCEPT ![t] =
                   [IdleLoc EXCEPT !.user = sess,
                                   !.deadline = now + Min(TimeoutOf(q.timeout), ServerMaxTimeout) * 1000,
                                   !.atStart = Mailbox(sess),
                                   !.caller = sess, !.query = q, !.began = now]]
            /\ pc' = [pc EXCEPT ![t] = "p_check"]
            /\ resp' = resp
    /\ UNCHANGED <<now, ONLINE, ACTIVE, MESSAGE_QUEUES, heap, mode, hist, beat>>

\* jsonify({"ok": True, "messages": out})
PollResponse(t, out) ==
    Asked(loc[t].query, Response("poll", loc[t].caller, 200, TRUE, "", out, EmptyDict))

PollEvent(t, out) ==
    [kind |-> "poll", who |-> loc[t].caller, ids |-> Ids(out), by |-> loc[t].caller]

\* a poll that gives up when its next sleep would end after the deadline
PollCheck_NoOvershoot(t) ==
    /\ \/ pc[t] = "p_check"
       \/ pc[t] = "p_sleep" /\ now >= loc[t].wake
    /\ IF now + SleepMs < loc[t].deadline
       THEN /\ pc' = [pc EXCEPT ![t] = "p_get"]
            /\ UNCHANGED <<loc, resp, hist>>
       ELSE /\ pc' = [pc EXCEPT ![t] = "idle"]
            /\ resp' = (PollResponse(t, <<>>))
            /\ hist' = Append(hist, PollEvent(t, <<>>))
            /\ loc' = [loc EXCEPT ![t] = IdleLoc]
    /\ UNCHANGED <<now, ONLINE, ACTIVE, MESSAGE_QUEUES, heap, mode, reqs, beat>>

\* while time.time() < deadline: ... ; return jsonify({"ok": True, "messages": []})
\* (entered from the start of the handler, or when time.sleep(0.4) returns)
PollCheck(t) ==
    /\ \/ pc[t] = "p_check"
       \/ pc[t] = "p_sleep" /\ now >= loc[t].wake
    /\ IF now < loc[t].deadline
       THEN /\ pc' = [pc EXCEPT ![t] = "p_get"]
            /\ UNCHANGED <<loc, resp, hist>>
       ELSE /\ pc' = [pc EXCEPT ![t] = "idle"]
            /\ resp' = (PollResponse(t, <<>>))
            /\ hist' = Append(hist, PollEvent(t, <<>>))
            /\ loc' = [loc EXCEPT ![t] = IdleLoc]
    /\ UNCHANGED <<now, ONLINE, ACTIVE, MESSAGE_QUEUES, heap, mode, reqs, beat>>

\* queue = MESSAGE_QUEUES.get(screen_name, []) ; reference 0 is the fresh empty list
PollGet(t) ==
    /\ pc[t] = "p_get"
    /\ loc' = [loc EXCEPT ![t].queue =
           IF loc[t].user \in DOMAIN MESSAGE_QUEUES THEN MESSAGE_QUEUES[loc[t].user] ELSE 0]
    /\ pc' = [pc EXCEPT ![t] = "p_test"]
    /\ UNCHANGED <<now, ONLINE, ACTIVE, MESSAGE_QUEUES, heap, resp, mode, reqs, hist, beat>>

\* if queue: ... ; otherwise time.sleep(0.4)
PollTest(t) ==
    /\ pc[t] = "p_test"
    /\ IF loc[t].queue # 0 /\ heap[loc[t].queue] # <<>>
       THEN /\ pc' = [pc EXCEPT ![t] = "p_copy"]
            /\ UNCHANGED loc
       ELSE /\ pc' = [pc EXCEPT ![t] = "p_sleep"]
            /\ loc' = [loc EXCEPT ![t].wake = now + SleepMs, ![t].slept = @ + 1]
    /\ UNCHANGED <<now, ONLINE, ACTIVE, MESSAGE_QUEUES, heap, resp, mode, reqs, hist, beat>>

\* out = queue.copy()
PollCopy(t) ==
    /\ pc[t] = "p_copy"
    /\ loc' = [loc EXCEPT ![t].out = heap[loc[t].queue]]
    /\ pc' = [pc EXCEPT ![t] = "p_assign"]
    /\ UNCHANGED <<now, ONLINE, ACTIVE, MESSAGE_QUEUES, heap, resp, mode, reqs, hist, beat>>

\* MESSAGE_QUEUES[screen_name] = [] ; return jsonify({"ok": True, "messages": out})
PollAssign(t) ==
    /\ pc[t] = "p_assign"
    /\ heap' = Append(heap, <<>>)
    /\ MESSAGE_QUEUES' = Put(MESSAGE_QUEUES, loc[t].user, Len(heap) + 1)
    /\ resp' = (PollResponse(t, loc[t].out))
    /\ hist' = Append(hist, PollEvent(t, loc[t].out))
    /\ pc' = [pc EXCEPT ![t] = "idle"]
    /\ loc' = [loc EXCEPT ![t] = IdleLoc]
    /\ UNCHANGED <<now, ONLINE, ACTIVE, mode, reqs, beat>>

\* where a request thread stands while it serves a poll
PollPcs == {"p_check", "p_get", "p_test", "p_copy", "p_assign", "p_sleep"}

\* ------------------------------------------------------------------ time
Sleepers == {t \in Threads : pc[t] = "p_sleep"}

\* Time passes while every thread is idle or asleep, and not beyond the first
\* thread to wake; the statements of a handler take no time.
Tick(n) ==
    /\ \A t \in Threads : pc[t] \in {"idle", "p_sleep"}
    /\ n > now
    /\ \A t \in Sleepers : n <= loc[t].wake
    /\ \/ n \in Instants
       \/ \E t \in Sleepers : n = loc[t].wake
    /\ Sleepers = {} => reqs < MaxReq
    /\ now' = n
    /\ UNCHANGED <<ONLINE, ACTIVE, MESSAGE_QUEUES, heap, pc, loc, resp, mode, reqs, hist, beat>>

TickTargets == Instants \cup {loc[t].wake : t \in Threads}

\* ------------------------------------------------------------------ system
Next ==
    \/ \E t \in Free, sess \in Sessions, body \in BeatBodies :
          Heartbeat(t, sess, body) /\ UNCHANGED cvars
    \/ \E t \in Free, sess \in Sessions, raw \in NamesParams :
          Status(t, sess, raw) /\ UNCHANGED cvars
    \/ \E t \in Free, sess \in Sessions : Online(t, sess) /\ UNCHANGED cvars
    \/ \E t \in Free, sess \in Sessions, body \in SendBodies :
          SendStart(t, sess, body) /\ UNCHANGED cvars
    \/ \E t \in Threads : SendAppend(t) /\ UNCHANGED cvars
    \/ \E t \in Free, sess \in Sessions, q \in PollQueries :
          PollStart(t, sess, q) /\ UNCHANGED cvars
    \/ \E t \in Threads : PollCheck(t) /\ UNCHANGED cvars
    \/ \E t \in Threads : PollGet(t) /\ UNCHANGED cvars
    \/ \E t \in Threads : PollTest(t) /\ UNCHANGED cvars
    \/ \E t \in Threads : PollCopy(t) /\ UNCHANGED cvars
    \/ \E t \in Threads : PollAssign(t) /\ UNCHANGED cvars
    \/ \E n \in TickTargets : Tick(n) /\ UNCHANGED cvars

Spec == Init /\ [][Next]_vars

SpecThreaded == InitThreaded /\ [][Next]_vars


\* ================================================================== the client
LocalUser == B       \* local_screen_name of the desktop client
Peer == A            \* the buddy who writes to the local user

\* ------------------------------------------------------------------ client constants
BackoffCap == 8              \* seconds
OnlineEveryMs == 7000
TypingEveryMs == 1000
UnauthorizedPauseMs == 2000
PollErrorPauseMs == 500
PollTimeout == 3             \* seconds, the timeout parameter of the worker's poll
ActiveWindowMs == 60000

\* ------------------------------------------------------------------ client inputs
NoFlags == [muted |-> FALSE, blocked |-> FALSE]
FlagSets == {[n \in {Peer} |-> NoFlags]}

\* the message the peer sends: {"to": " b", "content": "x "}
PeerBody == ObjBody(JStr(<<" ", "b">>), JStr(<<"x", " ">>), JAbsent, JAbsent)

\* when the peer sends, in ms after the start of the client
PeerOffsets == {0, 3200}

\* the session of a client request: the signed-on user, or none once it expired
ClientSessions == {LocalUser, NoUser}

\* the client starts with the buddy flags _refresh_buddies fetched
InitClient ==
    /\ \E flags \in FlagSets : ClientInit(flags)
    /\ now = StartTime
    /\ ONLINE = EmptyDict
    /\ ACTIVE = EmptyDict
    /\ MESSAGE_QUEUES = EmptyDict
    /\ heap = <<>>
    /\ pc = [t \in Threads |-> "idle"]
    /\ loc = [t \in Threads |-> IdleLoc]
    /\ resp = NoResp
    /\ mode = "client"
    /\ reqs = 0
    /\ hist = <<>>
    /\ beat = [u \in SessionUsers |-> [hb |-> 0 - 1, act |-> 0 - 1, first |-> 0 - 1]]

\* ------------------------------------------------------------------ signals
NoSignal == [sig |-> "none", st |-> "", msgs |-> <<>>, statuses |-> EmptyDict, typing |-> <<>>]
StateSignal(st) == [NoSignal EXCEPT !.sig = "state", !.st = st]
MessagesSignal(msgs) == [NoSignal EXCEPT !.sig = "messages", !.msgs = msgs]
OnlineSignal(statuses) == [NoSignal EXCEPT !.sig = "online", !.statuses = statuses]
TypingSignal(typing) == [NoSignal EXCEPT !.sig = "typing", !.typing = typing]

\* the worker issues a request of its iteration
Sent(r, kind) ==
    [r EXCEPT !.sent = Append(@, kind),
              !.status_at = IF kind = "status" THEN w.now ELSE @]

\* the worker has the response of a request of its iteration
Got(r, reply) == [r EXCEPT !.codes = Append(@, reply.code)]

\* list((self._buddy_flags or {}).keys())
RECURSIVE ListOf(_)
ListOf(S) == IF S = {} THEN <<>> ELSE LET x == CHOOSE y \in S : TRUE IN <<x>> \o ListOf(S \ {x})

get_names == ListOf(DOMAIN buddy_flags)

\* ",".join(names)
RECURSIVE Join(_)
Join(names) ==
    IF names = <<>> THEN <<>>
    ELSE IF Len(names) = 1 THEN names[1]
    ELSE names[1] \o <<",">> \o Join(Tail(names))

\* (time.time() - self._last_input) < 60, _last_input being the time of construction
get_active == (now - StartTime) < ActiveWindowMs

WorkerFrame == UNCHANGED <<running, conn_label, buddy_flags, tree, open_msgs, tray, delivered, typed>>

ServerIdle == UNCHANGED svars

\* ------------------------------------------------------------------ _NetWorker.run
\* a worker whose loop does not look at the running flag
LoopTest_IgnoresFlag ==
    /\ w.pc = "top"
    /\ effort < MaxEffort
    /\ w' = [w EXCEPT !.pc = "beat", !.now = now]
    /\ round' = [NewRound EXCEPT !.status_at = round.status_at]
    /\ WorkerFrame /\ ServerIdle
    /\ UNCHANGED <<signals, fails, effort>>

\* while self._running: now = time.time()
LoopTest ==
    /\ w.pc = "top"
    /\ IF running
       THEN /\ effort < MaxEffort
            /\ w' = [w EXCEPT !.pc = "beat", !.now = now]
            /\ round' = [NewRound EXCEPT !.status_at = round.status_at]
       ELSE /\ w' = [w EXCEPT !.pc = "done"]
            /\ round' = round
    /\ WorkerFrame /\ ServerIdle
    /\ UNCHANGED <<signals, fails, effort>>

\* a worker that keeps its backoff when a heartbeat is answered
BeatAsk_KeepBackoff(t, sess) ==
    /\ w.pc = "beat"
    /\ effort + AnsweredCost <= MaxEffort
    /\ Heartbeat(t, sess, ObjBody(JAbsent, JAbsent, JAbsent, JBool(get_active)))
    /\ w' = [w EXCEPT !.pc = "status"]
    /\ signals' = Append(signals, StateSignal("connected"))
    /\ round' = [Got(Sent(round, "heartbeat"), resp')
                    EXCEPT !.beat = "ok", !.reports = Append(@, "connected")]
    /\ fails' = 0
    /\ effort' = effort + AnsweredCost
    /\ WorkerFrame

\* self._session.post(".../api/presence/heartbeat", json={"active": active}, timeout=3)
\* returned (its status is not looked at): self.state.emit("connected") ; backoff = 1.0
BeatAsk(t, sess) ==
    /\ w.pc = "beat"
    /\ effort + AnsweredCost <= MaxEffort
    /\ Heartbeat(t, sess, ObjBody(JAbsent, JAbsent, JAbsent, JBool(get_active)))
    /\ w' = [w EXCEPT !.pc = "status", !.backoff = 1]
    /\ signals' = Append(signals, StateSignal("connected"))
    /\ round' = [Got(Sent(round, "heartbeat"), resp')
                    EXCEPT !.beat = "ok", !.reports = Append(@, "connected")]
    /\ fails' = 0
    /\ effort' = effort + AnsweredCost
    /\ WorkerFrame

\* a worker that reports connected when its heartbeat fails
BeatRaised_ReportsConnected ==
    /\ w.pc = "beat"
    /\ w' = [w EXCEPT !.pc = "backoff_sleep", !.wake = now + Min(w.backoff, BackoffCap) * 1000]
    /\ signals' = Append(signals, StateSignal("connected"))
    /\ round' = [Sent(round, "heartbeat")
                    EXCEPT !.beat = "failed", !.reports = Append(@, "connected")]
    /\ fails' = fails + 1
    /\ effort' = effort + 1
    /\ WorkerFrame /\ ServerIdle

\* a worker that goes on to the status query when its heartbeat fails
BeatRaised_GoesOn ==
    /\ w.pc = "beat"
    /\ w' = [w EXCEPT !.pc = "status"]
    /\ signals' = Append(signals, StateSignal("reconnecting"))
    /\ round' = [Sent(round, "heartbeat")
                    EXCEPT !.beat = "failed", !.reports = Append(@, "reconnecting")]
    /\ fails' = fails + 1
    /\ effort' = effort + 1
    /\ WorkerFrame /\ ServerIdle

\* a worker whose run() returns when a heartbeat fails
BeatRaised_Fatal ==
    /\ w.pc = "beat"
    /\ w' = [w EXCEPT !.pc = "done"]
    /\ signals' = Append(signals, StateSignal("reconnecting"))
    /\ round' = [Sent(round, "heartbeat")
                    EXCEPT !.beat = "failed", !.reports = Append(@, "reconnecting")]
    /\ fails' = fails + 1
    /\ effort' = effort + 1
    /\ WorkerFrame /\ ServerIdle

\* the post raised (no connection, or no answer within its timeout):
\* self.state.emit("reconnecting") ; time.sleep(min(backoff, 8.0))
BeatRaised ==
    /\ w.pc = "beat"
    /\ w' = [w EXCEPT !.pc = "backoff_sleep", !.wake = now + Min(w.backoff, BackoffCap) * 1000]
    /\ signals' = Append(signals, StateSignal("reconnecting"))
    /\ round' = [Sent(round, "heartbeat")
                    EXCEPT !.beat = "failed", !.reports = Append(@, "reconnecting")]
    /\ fails' = fails + 1
    /\ effort' = effort + 1
    /\ WorkerFrame /\ ServerIdle

\* the sleep is over: backoff = min(backoff * 2.0, 8.0) ; continue
BackoffWake ==
    /\ w.pc = "backoff_sleep"
    /\ now >= w.wake
    /\ w' = [w EXCEPT !.pc = "top", !.backoff = Min(w.backoff * 2, BackoffCap)]
    /\ WorkerFrame /\ ServerIdle
    /\ UNCHANGED <<signals, round, fails, effort>>

\* if now - last_online_check > 7
StatusDue == w.now - w.last_online_check > OnlineEveryMs

\* the status is not due, or there is no buddy to ask about
StatusSkip ==
    /\ w.pc = "status"
    /\ ~StatusDue \/ get_names = <<>>
    /\ w' = [w EXCEPT !.pc = "typing",
                      !.last_online_check = IF StatusDue THEN w.now ELSE @]
    /\ WorkerFrame /\ ServerIdle
    /\ UNCHANGED <<signals, round, fails, effort>>

\* r = self._session.get(".../api/presence/status", params={"names": ",".join(names)})
\* if r.status_code == 401: emit("unauthorized") ; time.sleep(2.0) ; continue
\* data = r.json() if r.ok else {} ; self.online.emit(data.get("statuses", {}))
StatusAsk(t, sess) ==
    /\ w.pc = "status"
    /\ StatusDue /\ get_names # <<>>
    /\ Status(t, sess, Join(get_names))
    /\ IF resp'.code = 401
       THEN /\ w' = [w EXCEPT !.pc = "pause", !.wake = now + UnauthorizedPauseMs]
            /\ signals' = Append(signals, StateSignal("unauthorized"))
            /\ round' = [Got(Sent(round, "status"), resp')
                            EXCEPT !.reports = Append(@, "unauthorized")]
       ELSE /\ w' = [w EXCEPT !.pc = "typing", !.last_online_check = w.now]
            /\ signals' = Append(signals,
                   OnlineSignal(IF resp'.ok THEN resp'.statuses ELSE EmptyDict))
            /\ round' = Got(Sent(round, "status"), resp')
    /\ WorkerFrame
    /\ UNCHANGED <<fails, effort>>

\* the status request is answered 401 (the presence_status of this repository never
\* does; a server that checks the session does):
\* self.state.emit("unauthorized") ; time.sleep(2.0) ; continue
StatusDenied ==
    /\ w.pc = "status"
    /\ StatusDue /\ get_names # <<>>
    /\ w' = [w EXCEPT !.pc = "pause", !.wake = now + UnauthorizedPauseMs]
    /\ signals' = Append(signals, StateSignal("unauthorized"))
    /\ round' = [Got(Sent(round, "status"), Unauthorized("status"))
                    EXCEPT !.reports = Append(@, "unauthorized")]
    /\ WorkerFrame /\ ServerIdle
    /\ UNCHANGED <<fails, effort>>

\* the get raised: except Exception: pass ; last_online_check = now
StatusRaised ==
    /\ w.pc = "status"
    /\ StatusDue /\ get_names # <<>>
    /\ w' = [w EXCEPT !.pc = "typing", !.last_online_check = w.now]
    /\ round' = Sent(round, "status")
    /\ WorkerFrame /\ ServerIdle
    /\ UNCHANGED <<signals, fails, effort>>

\* if now - last_typing_check > 1.0
TypingDue == w.now - w.last_typing_check > TypingEveryMs

TypingSkip ==
    /\ w.pc = "typing"
    /\ ~TypingDue
    /\ w' = [w EXCEPT !.pc = "poll"]
    /\ WorkerFrame /\ ServerIdle
    /\ UNCHANGED <<signals, round, fails, effort>>

\* rt = self._session.get(".../api/messages/typing", timeout=3)
\* td = rt.json() if rt.ok else {} ; if td.get("typing"): self.typing.emit(...)
TypingAsk(t, sess) ==
    /\ w.pc = "typing"
    /\ TypingDue
    /\ NoRoute(t, sess, "typing")
    /\ w' = [w EXCEPT !.pc = "poll", !.last_typing_check = w.now]
    /\ signals' = IF resp'.ok /\ resp'.typing # <<>>
                  THEN Append(signals, TypingSignal(resp'.typing))
                  ELSE signals
    /\ round' = Got(Sent(round, "typing"), resp')
    /\ WorkerFrame
    /\ UNCHANGED <<fails, effort>>

\* the get raised: except Exception: pass ; last_typing_check = now
TypingRaised ==
    /\ w.pc = "typing"
    /\ TypingDue
    /\ w' = [w EXCEPT !.pc = "poll", !.last_typing_check = w.now]
    /\ round' = Sent(round, "typing")
    /\ WorkerFrame /\ ServerIdle
    /\ UNCHANGED <<signals, fails, effort>>

\* r = self._session.get(".../api/messages/poll",
\*                       params={"screen_name": self.screen_name, "timeout": 3}, timeout=4)
PollSend(t, sess) ==
    /\ w.pc = "poll"
    /\ PollStart(t, sess, PollQuery(TimeoutInt(PollTimeout), LocalUser))
    /\ w' = IF pc'[t] = "idle"
            THEN [w EXCEPT !.pc = "poll_wait", !.reply = resp']
            ELSE [w EXCEPT !.pc = "poll_wait", !.thread = t]
    /\ round' = Sent(round, "poll")
    /\ WorkerFrame
    /\ UNCHANGED <<signals, fails, effort>>

\* the response of request thread t reaches the worker that waits for it
Handback(t) ==
    IF pc'[t] = "idle" /\ w.pc = "poll_wait" /\ w.thread = t
    THEN /\ w' = [w EXCEPT !.reply = resp', !.thread = 0]
         /\ UNCHANGED <<running, signals, conn_label, buddy_flags, tree, open_msgs, tray,
                        delivered, round, fails, effort, typed>>
    ELSE UNCHANGED cvars

\* a worker that emits a messages event for every answered poll
PollRecv_EmitAlways ==
    /\ w.pc = "poll_wait"
    /\ w.reply.op # "none"
    /\ IF w.reply.code = 401
       THEN /\ w' = [w EXCEPT !.pc = "pause", !.wake = now + UnauthorizedPauseMs,
                              !.reply = NoResp]
            /\ signals' = Append(signals, StateSignal("unauthorized"))
            /\ round' = [Got(round, w.reply) EXCEPT !.reports = Append(@, "unauthorized")]
       ELSE /\ w' = [w EXCEPT !.pc = "top", !.reply = NoResp]
            /\ signals' =
                   LET msgs == IF w.reply.ok THEN w.reply.messages ELSE <<>>
                   IN  Append(signals, MessagesSignal(msgs))
            /\ round' = Got(round, w.reply)
    /\ WorkerFrame /\ ServerIdle
    /\ UNCHANGED <<fails, effort>>

\* if r.status_code == 401: emit("unauthorized") ; time.sleep(2.0) ; continue
\* data = r.json() if r.ok else {} ; msgs = data.get("messages", [])
\* if msgs: self.messages.emit(msgs)
PollRecv ==
    /\ w.pc = "poll_wait"
    /\ w.reply.op # "none"
    /\ IF w.reply.code = 401
       THEN /\ w' = [w EXCEPT !.pc = "pause", !.wake = now + UnauthorizedPauseMs,
                              !.reply = NoResp]
            /\ signals' = Append(signals, StateSignal("unauthorized"))
            /\ round' = [Got(round, w.reply) EXCEPT !.reports = Append(@, "unauthorized")]
       ELSE /\ w' = [w EXCEPT !.pc = "top", !.reply = NoResp]
            /\ signals' =
                   LET msgs == IF w.reply.ok THEN w.reply.messages ELSE <<>>
                   IN  IF msgs # <<>> THEN Append(signals, MessagesSignal(msgs)) ELSE signals
            /\ round' = Got(round, w.reply)
    /\ WorkerFrame /\ ServerIdle
    /\ UNCHANGED <<fails, effort>>

\* the get raised (no connection, or the connection was lost or closed before the
\* response was read): except Exception: time.sleep(0.5)
PollRaised ==
    /\ w.pc = "poll" \/ (w.pc = "poll_wait" /\ w.reply.op # "none")
    /\ w' = [w EXCEPT !.pc = "pause", !.wake = now + PollErrorPauseMs, !.thread = 0,
                      !.reply = NoResp]
    /\ round' = IF w.pc = "poll" THEN Sent(round, "poll") ELSE round
    /\ WorkerFrame /\ ServerIdle
    /\ UNCHANGED <<signals, fails, effort>>

\* time.sleep(2.0) or time.sleep(0.5) is over: back to the loop test
PauseWake ==
    /\ w.pc = "pause"
    /\ now >= w.wake
    /\ w' = [w EXCEPT !.pc = "top"]
    /\ WorkerFrame /\ ServerIdle
    /\ UNCHANGED <<signals, round, fails, effort>>

\* _NetWorker.stop, called by closeEvent on the UI thread
Stop ==
    /\ running
    /\ running' = FALSE
    /\ ServerIdle
    /\ UNCHANGED <<w, signals, conn_label, buddy_flags, tree, open_msgs, tray, delivered,
                   round, fails, effort, typed>>

\* ------------------------------------------------------------------ the UI thread
LabelOf(st) ==
    CASE st = "connected" -> "Connected"
      [] st = "reconnecting" -> "Reconnecting"
      [] st = "unauthorized" -> "Unauthorized"
      [] OTHER -> st

\* BuddyListWindow._on_state
OnState ==
    /\ signals # <<>> /\ Head(signals).sig = "state"
    /\ conn_label' = LabelOf(Head(signals).st)
    /\ signals' = Tail(signals)
    /\ ServerIdle
    /\ UNCHANGED <<w, running, buddy_flags, tree, open_msgs, tray, delivered, round, fails,
                   effort, typed>>

\* BuddyListWindow._on_online: a buddy the answer does not name reads offline
OnOnline ==
    /\ signals # <<>> /\ Head(signals).sig = "online"
    /\ tree' = [n \in DOMAIN tree |->
                   LET names == Head(signals).statuses
                       state == IF n \in DOMAIN names THEN names[n] ELSE "offline"
                   IN  IF state \in {"online", "away", "offline"} THEN state ELSE "offline"]
    /\ signals' = Tail(signals)
    /\ ServerIdle
    /\ UNCHANGED <<w, running, conn_label, buddy_flags, open_msgs, tray, delivered, round,
                   fails, effort, typed>>

NewWindow(peer) == [peer_screen_name |-> peer, transcript |-> <<>>, input |-> <<>>]

HasWindow(wins, peer) == \E i \in 1..Len(wins) : wins[i].peer_screen_name = peer

FlagsOf(sender) == IF sender \in DOMAIN buddy_flags THEN buddy_flags[sender] ELSE NoFlags

\* BuddyListWindow._deliver_incoming on the UI state ui = [tray, open_msgs, delivered];
\* MessageWindow has no append_incoming, so nothing is added to a transcript
DeliverIncoming(ui, m) ==
    LET sender == IF m.from # <<>> THEN m.from ELSE <<"b", "u", "d", "d", "y">>
        flags == FlagsOf(sender)
        shown == IF ~flags.muted THEN Append(ui.tray, m.id) ELSE ui.tray
        called == Append(ui.delivered, m.id)
    IN  IF flags.blocked
        THEN [tray |-> shown, open_msgs |-> ui.open_msgs, delivered |-> called]
        ELSE [tray |-> shown,
              open_msgs |-> IF HasWindow(ui.open_msgs, sender) THEN ui.open_msgs
                            ELSE Append(ui.open_msgs, NewWindow(sender)),
              delivered |-> called]

\* for m in msgs or []: self._deliver_incoming(...)
RECURSIVE DeliverAll(_, _)
DeliverAll(ui, msgs) ==
    IF msgs = <<>> THEN ui ELSE DeliverAll(DeliverIncoming(ui, Head(msgs)), Tail(msgs))

\* BuddyListWindow._on_messages
OnMessages ==
    /\ signals # <<>> /\ Head(signals).sig = "messages"
    /\ LET ui == DeliverAll([tray |-> tray, open_msgs |-> open_msgs, delivered |-> delivered],
                            Head(signals).msgs)
       IN  /\ tray' = ui.tray
           /\ open_msgs' = ui.open_msgs
           /\ delivered' = ui.delivered
    /\ signals' = Tail(signals)
    /\ ServerIdle
    /\ UNCHANGED <<w, running, conn_label, buddy_flags, tree, round, fails, effort, typed>>

\* ------------------------------------------------------------------ message window
WindowTexts == {<<"x">>, <<" ">>, <<" ", "y">>}
WindowPeers == {Peer, G}

\* BuddyListWindow._open_message_for_item: an open window is reused
OpenMessage(peer) ==
    /\ open_msgs' = IF HasWindow(open_msgs, peer) THEN open_msgs
                    ELSE Append(open_msgs, NewWindow(peer))
    /\ ServerIdle
    /\ UNCHANGED <<w, running, signals, conn_label, buddy_flags, tree, tray, delivered,
                   round, fails, effort, typed>>

\* the user replaces the text of the input box of window i
TypeText(i, text) ==
    /\ typed < MaxTyped
    /\ typed' = typed + 1
    /\ open_msgs' = [open_msgs EXCEPT ![i].input = text]
    /\ ServerIdle
    /\ UNCHANGED <<w, running, signals, conn_label, buddy_flags, tree, tray, delivered,
                   round, fails, effort>>

\* MessageWindow._send_message of window i: the text goes to the transcript and the
\* input box is cleared; nothing is sent over the network
SendMessage(i) ==
    /\ LET plain == Strip(open_msgs[i].input)
       IN  IF plain = <<>>
           THEN open_msgs' = open_msgs
           ELSE open_msgs' = [open_msgs EXCEPT
                    ![i].transcript = Append(@, [sender |-> LocalUser,
                                                 text |-> open_msgs[i].input]),
                    ![i].input = <<>>]
    /\ ServerIdle
    /\ UNCHANGED <<w, running, signals, conn_label, buddy_flags, tree, tray, delivered,
                   round, fails, effort, typed>>

\* ------------------------------------------------------------------ client time
WorkerSleeps == w.pc \in {"backoff_sleep", "pause"}

\* the worker can take a step now
WorkerReady ==
    \/ w.pc = "top" /\ (~running \/ effort < MaxEffort)
    \/ w.pc \in {"beat", "status", "typing", "poll"}
    \/ w.pc = "poll_wait" /\ w.reply.op # "none"
    \/ WorkerSleeps /\ now >= w.wake

Wakes == {loc[t].wake : t \in Sleepers} \cup (IF WorkerSleeps THEN {w.wake} ELSE {})

\* Time passes to the next wake-up while the request threads are idle or asleep,
\* the worker sleeps or waits for the server, and the UI thread has no signal to handle.
ClientTick ==
    /\ \A t \in Threads : pc[t] \in {"idle", "p_sleep"}
    /\ \A t \in Sleepers : now < loc[t].wake
    /\ ~WorkerReady
    /\ signals = <<>>
    /\ Wakes # {}
    /\ now' = CHOOSE n \in Wakes : \A m \in Wakes : n <= m
    /\ UNCHANGED <<ONLINE, ACTIVE, MESSAGE_QUEUES, heap, pc, loc, resp, mode, reqs, hist, beat>>
    /\ UNCHANGED cvars

\* the peer sends a message to the local user, while no request thread is at work
PeerSend(t) ==
    /\ Created < MaxSends
    /\ now - StartTime \in PeerOffsets
    /\ \A u \in Threads : pc[u] \in {"idle", "p_sleep"}
    /\ SendStart(t, Peer, PeerBody)
    /\ UNCHANGED cvars

\* ------------------------------------------------------------------ client system
\* the UI thread has handled every signal emitted so far: its handlers take no time
Quiet == signals = <<>>

NextClient ==
    \/ Quiet /\ LoopTest
    \/ Quiet /\ \E t \in Free, sess \in ClientSessions : BeatAsk(t, sess)
    \/ Quiet /\ BeatRaised
    \/ Quiet /\ BackoffWake
    \/ Quiet /\ StatusSkip
    \/ Quiet /\ \E t \in Free : StatusAsk(t, LocalUser)
    \/ Quiet /\ StatusDenied
    \/ Quiet /\ StatusRaised
    \/ Quiet /\ TypingSkip
    \/ Quiet /\ \E t \in Free : TypingAsk(t, LocalUser)
    \/ Quiet /\ TypingRaised
    \/ Quiet /\ \E t \in Free, sess \in ClientSessions : PollSend(t, sess)
    \/ Quiet /\ PollRecv
    \/ Quiet /\ PollRaised
    \/ Quiet /\ PauseWake
    \/ Quiet /\ Stop
    \/ OnState
    \/ OnOnline
    \/ OnMessages
    \/ Quiet /\ \E t \in Free : PeerSend(t)
    \/ Quiet /\ \E t \in Threads : SendAppend(t) /\ UNCHANGED cvars
    \/ Quiet /\ \E t \in Threads : PollCheck(t) /\ Handback(t)
    \/ Quiet /\ \E t \in Threads : PollGet(t) /\ UNCHANGED cvars
    \/ Quiet /\ \E t \in Threads : PollTest(t) /\ UNCHANGED cvars
    \/ Quiet /\ \E t \in Threads : PollCopy(t) /\ UNCHANGED cvars
    \/ Quiet /\ \E t \in Threads : PollAssign(t) /\ Handback(t)
    \/ ClientTick

\* the client and the server it talks to
SpecClient == InitClient /\ [][NextClient]_vars

\* the worker thread, the UI thread and the request threads keep running, and time passes
SpecClientFair == InitClient /\ [][NextClient]_vars /\ WF_vars(NextClient)

InitWindow ==
    /\ ClientInit(EmptyDict)
    /\ now = StartTime
    /\ ONLINE = EmptyDict
    /\ ACTIVE = EmptyDict
    /\ MESSAGE_QUEUES = EmptyDict
    /\ heap = <<>>
    /\ pc = [t \in Threads |-> "idle"]
    /\ loc = [t \in Threads |-> IdleLoc]
    /\ resp = NoResp
    /\ mode = "window"
    /\ reqs = 0
    /\ hist = <<>>
    /\ beat = [u \in SessionUsers |-> [hb |-> 0 - 1, act |-> 0 - 1, first |-> 0 - 1]]

NextWindow ==
    \/ \E peer \in WindowPeers : OpenMessage(peer)
    \/ \E i \in 1..Len(open_msgs), text \in WindowTexts : TypeText(i, text)
    \/ \E i \in 1..Len(open_msgs) : SendMessage(i)

\* the user at the message windows of the client
SpecWindow == InitWindow /\ [][NextWindow]_vars


\* ------------------------------------------------------------------ poll timing
\* the timeouts, in seconds, of the polls of the local user
PollSeconds == {1, 2, 3, 30}

InitPoll ==
    /\ ClientInit(EmptyDict)
    /\ now = 0
    /\ ONLINE = EmptyDict
    /\ ACTIVE = EmptyDict
    /\ MESSAGE_QUEUES = EmptyDict
    /\ heap = <<>>
    /\ pc = [t \in Threads |-> "idle"]
    /\ loc = [t \in Threads |-> IdleLoc]
    /\ resp = NoResp
    /\ mode = "polls"
    /\ reqs = 0
    /\ hist = <<>>
    /\ beat = [u \in SessionUsers |-> [hb |-> 0 - 1, act |-> 0 - 1, first |-> 0 - 1]]

NextPoll ==
    \/ /\ now \in Instants
       /\ \A u \in Threads : pc[u] \notin PollPcs
       /\ \E t \in Free, n \in PollSeconds :
             PollStart(t, LocalUser, PollQuery(TimeoutInt(n), <<>>)) /\ UNCHANGED cvars
    \/ \E t \in Free : SendStart(t, Peer, PeerBody) /\ UNCHANGED cvars
    \/ \E t \in Threads : SendAppend(t) /\ UNCHANGED cvars
    \/ \E t \in Threads : PollCheck(t) /\ UNCHANGED cvars
    \/ \E t \in Threads : PollGet(t) /\ UNCHANGED cvars
    \/ \E t \in Threads : PollTest(t) /\ UNCHANGED cvars
    \/ \E t \in Threads : PollCopy(t) /\ UNCHANGED cvars
    \/ \E t \in Threads : PollAssign(t) /\ UNCHANGED cvars
    \/ \E n \in TickTargets : Tick(n) /\ UNCHANGED cvars

\* long polls of the local user, of several timeouts, begun at one of the instants
\* and one at a time, as the user's worker issues them, while the peer sends at any time
SpecPoll == InitPoll /\ [][NextPoll]_vars

\* ------------------------------------------------------------------ incoming messages
\* the flags the user may have set on the peer
AllFlagSets ==
    {[n \in {Peer} |-> [muted |-> m, blocked |-> b]] : m \in BOOLEAN, b \in BOOLEAN}

\* the senders of the messages of a poll response, in order
SenderBatches == {<<Peer>>, <<G>>, <<Peer, Peer>>, <<Peer, G>>}

\* a message of a poll response, as send_message built it
IncomingMsg(sender, id) ==
    [NoMsg EXCEPT !.from = sender, !.to = LocalUser, !.content = <<"x">>, !.id = id]

InitDeliver ==
    /\ \E flags \in AllFlagSets : ClientInit(flags)
    /\ now = StartTime
    /\ ONLINE = EmptyDict
    /\ ACTIVE = EmptyDict
    /\ MESSAGE_QUEUES = EmptyDict
    /\ heap = <<>>
    /\ pc = [t \in Threads |-> "idle"]
    /\ loc = [t \in Threads |-> IdleLoc]
    /\ resp = NoResp
    /\ mode = "deliver"
    /\ reqs = 0
    /\ hist = <<>>
    /\ beat = [u \in SessionUsers |-> [hb |-> 0 - 1, act |-> 0 - 1, first |-> 0 - 1]]

\* self.messages.emit(msgs): the worker hands a poll response's messages to the UI
MessagesArrive(senders) ==
    /\ Quiet
    /\ Len(delivered) + Len(senders) <= MaxSends
    /\ signals' = Append(signals, MessagesSignal(
           [i \in 1..Len(senders) |-> IncomingMsg(senders[i], Len(delivered) + i)]))
    /\ ServerIdle
    /\ UNCHANGED <<w, running, conn_label, buddy_flags, tree, open_msgs, tray, delivered,
                   round, fails, effort, typed>>

NextDeliver ==
    \/ \E senders \in SenderBatches : MessagesArrive(senders)
    \/ OnMessages
    \/ \E peer \in WindowPeers : OpenMessage(peer)

\* the UI thread of the client receiving messages, whatever the flags of the sender
SpecDeliver == InitDeliver /\ [][NextDeliver]_vars

\* ------------------------------------------------------------------ observations
\* the step admits a request and answers it at once
AnsweredAtOnce(op) == reqs' = reqs + 1 /\ pc' = pc /\ resp'.op = op

\* the step is thread t leaving its handler with a response
Returns(t) == pc[t] # "idle" /\ pc'[t] = "idle"

AllNames == {A, B, G}

Polls(r) == {i \in 1..Len(hist) : hist[i].kind = "poll" /\ hist[i].who = r}

\* the last poll response to r before event i of the history (0: none)
LastPollBefore(r, i) ==
    LET before == {j \in Polls(r) : j < i}
    IN  IF before = {} THEN 0 ELSE CHOOSE j \in before : \A k \in before : k <= j

\* the ids of the sends to r acknowledged at events lo..hi of the history
RECURSIVE SendIds(_, _, _)
SendIds(r, lo, hi) ==
    IF lo > hi THEN <<>>
    ELSE (IF hist[lo].kind = "send" /\ hist[lo].who = r THEN hist[lo].ids ELSE <<>>)
            \o SendIds(r, lo + 1, hi)

\* ------------------------------------------------------------------ claims

\* C1: with requests served one at a time, every poll response to r holds exactly
\* the messages sent to r since r's previous poll, in send order; so a poll that
\* follows a poll with no send in between answers an empty list.
C1_PollReturnsSendsInOrder ==
    mode = "serial" =>
        \A i \in 1..Len(hist) :
            hist[i].kind = "poll" =>
                hist[i].ids = SendIds(hist[i].who, LastPollBefore(hist[i].who, i) + 1, i - 1)

Acked == {i \in 1..Len(hist) : hist[i].kind = "send"}

Pending(id, r) == \E k \in 1..Len(Mailbox(r)) : Mailbox(r)[k].id = id

BeingReturned(id, r) ==
    \E t \in Threads :
        /\ pc[t] = "p_assign"
        /\ loc[t].user = r
        /\ \E k \in 1..Len(loc[t].out) : loc[t].out[k].id = id

Returned(id, r) == \E i \in Polls(r) : \E k \in 1..Len(hist[i].ids) : hist[i].ids[k] = id

\* C2: no loss under concurrency: every message whose send was acknowledged is
\* still pending in its recipient's mailbox, is in a poll response being sent to
\* the recipient, or has been returned by a poll of the recipient.
C2_NoAckedMessageLost ==
    \A i \in Acked :
        \/ Pending(hist[i].ids[1], hist[i].who)
        \/ BeingReturned(hist[i].ids[1], hist[i].who)
        \/ Returned(hist[i].ids[1], hist[i].who)

\* C3: no duplication under concurrent drains: a message appears in at most one
\* poll response, and at most once in it.
C3_NoMessageReturnedTwice ==
    \A i, j \in 1..Len(hist) :
        (hist[i].kind = "poll" /\ hist[j].kind = "poll") =>
            \A k \in 1..Len(hist[i].ids), l \in 1..Len(hist[j].ids) :
                hist[i].ids[k] = hist[j].ids[l] => (i = j /\ k = l)

\* C4: a heartbeat, status, send or poll request without a session identity is
\* answered 401, carries no presence or message data, and leaves the presence
\* maps and every mailbox unchanged.
C4_UnauthenticatedFailsClosed ==
    [][\A op \in {"heartbeat", "status", "send", "poll"} :
          (AnsweredAtOnce(op) /\ resp'.sess = NoUser) =>
              /\ resp'.code = 401
              /\ ~resp'.ok
              /\ resp'.messages = <<>>
              /\ resp'.statuses = EmptyDict
              /\ UNCHANGED Stores]_vars

\* C5: for a name with a presence entry, the status endpoint reports a status
\* other than offline if and only if less than 20 s have passed since the name's
\* last heartbeat; at exactly 20 s and beyond it reports offline.
C5_OnlineIffWithinWindow ==
    [][AnsweredAtOnce("status") =>
          \A n \in DOMAIN resp'.statuses :
              (n \in SessionUsers /\ beat[n].hb >= 0) =>
                  (resp'.statuses[n] # "offline" <=> now - beat[n].hb < 20 * 1000)]_vars

\* C6: for a user with at least one active heartbeat whose latest heartbeat is
\* within the online window, the status is away if and only if 5 minutes or more
\* have passed since the last active heartbeat, and online otherwise; inactive
\* heartbeats keep the user from going offline but do not move that time.
C6_AwayIffIdleWindowPassed ==
    [][AnsweredAtOnce("status") =>
          \A n \in DOMAIN resp'.statuses :
              (n \in SessionUsers /\ beat[n].act >= 0 /\ now - beat[n].hb < 20 * 1000) =>
                  /\ resp'.statuses[n] = "away" <=> now - beat[n].act >= 5 * 60 * 1000
                  /\ resp'.statuses[n] = "online" <=> now - beat[n].act < 5 * 60 * 1000]_vars

\* a status query answered away for a user whose active heartbeat is 5 minutes
\* old and who has just sent an inactive heartbeat
C6_Witness ==
    /\ resp.op = "status"
    /\ \E n \in DOMAIN resp.statuses :
          /\ n \in SessionUsers
          /\ resp.statuses[n] = "away"
          /\ beat[n].act >= 0
          /\ beat[n].hb = now
          /\ beat[n].hb > beat[n].act

NeverBeat(n) == n \notin SessionUsers \/ beat[n].hb < 0

\* C7: whatever heartbeats, sends and polls came before, the status endpoint
\* reports offline for every requested name that has never sent a heartbeat.
C7_NeverHeartbeatedIsOffline ==
    [][AnsweredAtOnce("status") =>
          \A n \in DOMAIN resp'.statuses : NeverBeat(n) => resp'.statuses[n] = "offline"]_vars

\* a status query that names a user who never sent a heartbeat, while a message
\* is queued for that user and another user has sent a heartbeat
C7_Witness ==
    /\ resp.op = "status"
    /\ \E n \in DOMAIN resp.statuses :
          /\ NeverBeat(n)
          /\ resp.statuses[n] = "offline"
          /\ Mailbox(n) # <<>>
    /\ \E u \in SessionUsers : beat[u].hb >= 0

\* C8: an authenticated heartbeat by u sets u's last_heartbeat to now, sets u's
\* last_active to now when the active flag is true, leaves it unchanged when the
\* flag is false or absent, and changes no other user's entry and no mailbox.
C8_HeartbeatEffect ==
    [][\A u \in SessionUsers :
          (AnsweredAtOnce("heartbeat") /\ resp'.sess = u) =>
              /\ u \in DOMAIN ONLINE' /\ ONLINE'[u] = now
              /\ (resp'.req.k = "obj" /\ resp'.req.active = JBool(TRUE)) =>
                     (u \in DOMAIN ACTIVE' /\ ACTIVE'[u] = now)
              /\ (resp'.req.k # "obj" \/ resp'.req.active \in {JBool(FALSE), JAbsent}) =>
                     /\ DOMAIN ACTIVE' = DOMAIN ACTIVE
                     /\ u \in DOMAIN ACTIVE => ACTIVE'[u] = ACTIVE[u]
              /\ \A v \in AllNames \ {u} :
                     /\ v \in DOMAIN ONLINE' <=> v \in DOMAIN ONLINE
                     /\ v \in DOMAIN ONLINE => ONLINE'[v] = ONLINE[v]
                     /\ v \in DOMAIN ACTIVE' <=> v \in DOMAIN ACTIVE
                     /\ v \in DOMAIN ACTIVE => ACTIVE'[v] = ACTIVE[v]
              /\ UNCHANGED <<MESSAGE_QUEUES, heap>>]_vars

\* an inactive heartbeat by a user whose last_active is older, answered while a
\* message is pending in some mailbox
C8_Witness ==
    /\ resp.op = "heartbeat"
    /\ resp.sess \in SessionUsers
    /\ resp.req.active = JBool(FALSE)
    /\ resp.sess \in DOMAIN ACTIVE
    /\ resp.sess \in DOMAIN ONLINE
    /\ ONLINE[resp.sess] = now
    /\ ACTIVE[resp.sess] < now
    /\ \E n \in AllNames : Mailbox(n) # <<>>

\* a field that is missing, null, empty or only white space
Blank(v) == v.k \in {"absent", "null"} \/ (v.k = "str" /\ \A k \in 1..Len(v.s) : v.s[k] = " ")

\* the recipient a send names: its to field without the surrounding white space
Recipient(body) == Strip(body.to.s)

\* C9: an authenticated send whose to or content is missing, empty or only white
\* space is answered 400 and leaves every mailbox unchanged; any other
\* authenticated send appends exactly one message to the mailbox of to, changes
\* no other mailbox, and is answered ok.
C9_SendValidatesAndEnqueues ==
    [][\A t \in Threads :
          ((AnsweredAtOnce("send") \/ (Returns(t) /\ resp'.op = "send" /\ pc[t] = "s_append"))
             /\ resp'.sess # NoUser) =>
              IF resp'.req.k # "obj" \/ Blank(resp'.req.to) \/ Blank(resp'.req.content)
              THEN /\ resp'.code = 400
                   /\ \A n \in AllNames : Mailbox(n)' = Mailbox(n)
              ELSE /\ resp'.code = 200 /\ resp'.ok
                   /\ \A n \in AllNames :
                         IF resp'.req.to.k = "str" /\ n = Recipient(resp'.req)
                         THEN /\ Len(Mailbox(n)') = Len(Mailbox(n)) + 1
                              /\ SubSeq(Mailbox(n)', 1, Len(Mailbox(n))) = Mailbox(n)
                         ELSE Mailbox(n)' = Mailbox(n)]_vars

\* C10: whatever the requested timeout, a poll that finds its caller's mailbox
\* non-empty drains it and returns the pending messages without sleeping.
C10_PendingReturnedAtOnce ==
    [][\A t \in Threads :
          (mode = "serial" /\ Returns(t) /\ pc[t] \in PollPcs /\ loc[t].atStart # <<>>) =>
              /\ resp'.messages = loc[t].atStart
              /\ loc[t].slept = 0
              /\ Mailbox(loc[t].user)' = <<>>]_vars

\* C11: every authenticated poll ends in exactly one of two outcomes, a response
\* with a non-empty message list or a response with an empty one, and ends no
\* later than min(requested timeout, 30) seconds plus one sleep interval of 0.4 s
\* after the handler was entered.
C11_PollEndsInTime ==
    [][\A t \in Threads :
          ((AnsweredAtOnce("poll") /\ resp'.sess # NoUser) \/ (Returns(t) /\ pc[t] \in PollPcs)) =>
              /\ resp'.code = 200 /\ resp'.ok
              /\ (Returns(t) /\ TimeoutOf(loc[t].query.timeout) >= 0) =>
                     now - loc[t].began <=
                         Min(TimeoutOf(loc[t].query.timeout), 30) * 1000 + 400]_vars

\* C12: a poll by the session user only returns messages addressed to that user
\* and changes no mailbox but that user's, whatever its screen_name parameter.
C12_PollOnlyOwnMailbox ==
    [][\A t \in Threads :
          (Returns(t) /\ pc[t] \in PollPcs) =>
              /\ resp'.sess = loc[t].caller
              /\ \A k \in 1..Len(resp'.messages) : resp'.messages[k].to = loc[t].caller
              /\ \A n \in AllNames \ {loc[t].caller} : Mailbox(n)' = Mailbox(n)
              /\ resp'.messages # <<>> => Mailbox(loc[t].caller)' = <<>>]_vars

\* a poll by b that named g's mailbox in screen_name was answered with b's
\* messages, and g's mailbox still holds its message
C12_Witness ==
    /\ resp.op = "poll"
    /\ resp.sess = B
    /\ resp.screen_name = G
    /\ resp.messages # <<>>
    /\ \A k \in 1..Len(resp.messages) : resp.messages[k].to = B
    /\ Mailbox(G) # <<>>
    /\ Mailbox(B) = <<>>

\* the payload of the request answered by r is malformed: a body that is not a
\* JSON object, a to or content that is not a string, or a timeout that is no
\* integer (the only authenticated poll answered before its wait loop)
Malformed(r) ==
    \/ r.op \in {"heartbeat", "send"} /\ r.req.k = "arr"
    \/ r.op = "send" /\ (r.req.to.k = "num" \/ r.req.content.k = "num")
    \/ r.op = "poll"

\* C20: an authenticated heartbeat, send or poll with a malformed payload is
\* answered with a structured JSON response, never by an exception leaving the
\* handler, and the failed request changes no presence entry and no mailbox.
C20_MalformedPayloadHandled ==
    [][\A op \in {"heartbeat", "send", "poll"} :
          (AnsweredAtOnce(op) /\ resp'.sess # NoUser /\ Malformed(resp')) =>
              /\ resp'.code # 500
              /\ ~resp'.ok => UNCHANGED Stores]_vars

RECURSIVE Pow2(_)
Pow2(n) == IF n <= 0 THEN 1 ELSE 2 * Pow2(n - 1)

\* the step is a heartbeat of the worker that fails
BeatFails == fails' = fails + 1

\* the step is a heartbeat of the worker that is answered
BeatAnswered == effort' = effort + AnsweredCost

\* C13: the sleep after the k-th consecutive failed heartbeat is min(2^(k-1), 8)
\* seconds, the backoff is always one of 1, 2, 4, 8, and an answered heartbeat
\* resets it to 1, so that the next failure sleeps 1 second.
C13_BackoffSchedule ==
    [][/\ w'.backoff \in {1, 2, 4, 8}
       /\ BeatFails => /\ w'.pc = "backoff_sleep"
                       /\ w'.wake - now = Min(Pow2(fails' - 1), 8) * 1000
       /\ BeatAnswered => w'.backoff = 1 /\ fails' = 0]_vars

\* the fifth heartbeat in a row has failed and the worker sleeps the capped 8 s
C13_Witness ==
    /\ fails = 5
    /\ w.pc = "backoff_sleep"
    /\ w.wake = now + 8000
    /\ w.backoff = 8

\* C14: every failed heartbeat, so the first one after a success, makes the worker
\* report reconnecting; every answered heartbeat, so the first one after failures,
\* makes it report connected; connected is never reported in an iteration whose
\* heartbeat failed; and the label of the buddy list shows the state reported.
C14_StateFollowsHeartbeat ==
    [][/\ BeatFails => signals' = Append(signals, StateSignal("reconnecting"))
       /\ BeatAnswered => signals' = Append(signals, StateSignal("connected"))
       /\ round'.beat = "failed" => \A i \in 1..Len(round'.reports) :
                                        round'.reports[i] # "connected"
       /\ (signals # <<>> /\ signals' = Tail(signals) /\ Head(signals).sig = "state") =>
              conn_label' = LabelOf(Head(signals).st)]_vars

\* after an answered heartbeat the next one failed: the label reads Reconnecting
\* while the worker sleeps its first backoff
C14_Witness ==
    /\ fails = 1
    /\ effort = AnsweredCost + 1
    /\ round.beat = "failed"
    /\ round.reports = <<"reconnecting">>
    /\ w.pc = "backoff_sleep"
    /\ conn_label = "Reconnecting"

\* the step hands the worker a response with status 401
Gets401 ==
    /\ Len(round'.codes) = Len(round.codes) + 1
    /\ round'.codes[Len(round'.codes)] = 401

\* C15: whenever a request of the worker's iteration is answered 401, the worker
\* reports unauthorized in that iteration, has not reported connected in it,
\* and pauses before it goes back to the loop test.
C15_UnauthorizedReported ==
    [][Gets401 =>
          /\ round'.reports = Append(round.reports, "unauthorized")
          /\ \A i \in 1..Len(round'.reports) : round'.reports[i] # "connected"
          /\ w'.pc = "pause"]_vars

\* C16: once stop() has set the running flag to false it stays false, the loop
\* test never again starts an iteration, and run() returns.
C16_StopEndsRun ==
    /\ [][~running => (~running' /\ ~(w.pc = "top" /\ w'.pc = "beat"))]_vars
    /\ (~running ~> w.pc = "done")

\* stop() was called while the worker waits for its long-poll, whose request
\* thread sleeps on the server
C16_Witness ==
    /\ ~running
    /\ w.pc = "poll_wait"
    /\ w.thread # 0
    /\ pc[w.thread] = "p_sleep"

\* the ids of the messages of the batches emitted and not yet handled by the UI
RECURSIVE PendingIds(_)
PendingIds(sigs) ==
    IF sigs = <<>> THEN <<>> ELSE Ids(Head(sigs).msgs) \o PendingIds(Tail(sigs))

\* the messages surfaced to the UI, batch after batch
Surfaced == delivered \o PendingIds(signals)

\* the place of message id in the order of enqueueing for the local user (0: none)
EnqueuePlace(id) ==
    LET enq == SendIds(LocalUser, 1, Len(hist))
    IN  IF \E k \in 1..Len(enq) : enq[k] = id
        THEN CHOOSE k \in 1..Len(enq) : enq[k] = id ELSE 0

\* C17: the messages surfaced to the recipient's UI are in the order they were
\* enqueued for the recipient; the worker emits one messages event for a poll
\* response with messages, and none for an empty one.
C17_BatchesKeepOrder ==
    /\ [](\A i, j \in 1..Len(Surfaced) :
              i < j => (0 < EnqueuePlace(Surfaced[i])
                          /\ EnqueuePlace(Surfaced[i]) < EnqueuePlace(Surfaced[j])))
    /\ [][/\ (w.pc = "poll_wait" /\ w'.pc = "top") =>
               IF w.reply.ok /\ w.reply.messages # <<>>
               THEN signals' = Append(signals, MessagesSignal(w.reply.messages))
               ELSE signals' = signals
          /\ (Len(signals') > Len(signals) /\ signals'[Len(signals')].sig = "messages") =>
               (w.pc = "poll_wait" /\ w.reply.messages # <<>>)]_vars

\* two polls of the worker each brought one message, and both were handed to the
\* UI in the order they were sent
C17_Witness ==
    /\ delivered = <<1, 2>>
    /\ SendIds(LocalUser, 1, Len(hist)) = <<1, 2>>
    /\ \E i, j \in Polls(LocalUser) : i < j /\ hist[i].ids = <<1>> /\ hist[j].ids = <<2>>

\* the step is _send_message of window i putting a text that is not blank
SendsFrom(i) ==
    /\ Len(open_msgs') = Len(open_msgs)
    /\ Len(open_msgs'[i].transcript) = Len(open_msgs[i].transcript) + 1

\* C18: when the user sends a non-empty message from a message window to peer p,
\* a send-message call is made: the server builds the message from the local
\* user to p with that content, to append it to p's mailbox.
C18_WindowSendReachesServer ==
    [][\A i \in 1..Len(open_msgs) :
          SendsFrom(i) =>
              /\ reqs' = reqs + 1
              /\ \E t \in Threads :
                    /\ pc'[t] = "s_append"
                    /\ loc'[t].msg.from = LocalUser
                    /\ loc'[t].msg.to = open_msgs[i].peer_screen_name
                    /\ loc'[t].msg.content = Strip(open_msgs[i].input)]_vars

\* C19: a typing query of an authenticated user is answered with the list of the
\* users who marked themselves typing in the last 5 s, without the caller's name.
C19_TypingQueryAnswered ==
    [][(reqs' = reqs + 1 /\ resp'.op = "typing" /\ resp'.sess # NoUser) =>
          /\ resp'.code = 200 /\ resp'.ok
          /\ \A k \in 1..Len(resp'.typing) : resp'.typing[k] # resp'.sess]_vars

\* C21: a single failed heartbeat that the next heartbeat recovers from has not
\* changed the connectivity state the UI shows (no reconnecting was reported for
\* it), and no number of failed heartbeats ends the worker's loop.
C21_SingleFailureInvisible ==
    /\ [][(BeatAnswered /\ fails = 1) => conn_label # LabelOf("reconnecting")]_vars
    /\ [](w.pc = "done" => ~running)

\* C21 as amended: every failed heartbeat, the first one included, is reported as
\* reconnecting, and the recovery from a single failure is reported as connected;
\* a failed heartbeat sends the worker to its backoff sleep and back to the loop
\* test, and run() returns only after stop().
C21_FailureShownNeverFatal ==
    /\ [][/\ (BeatFails /\ fails = 0) =>
                (signals' = Append(signals, StateSignal("reconnecting")) /\ running' = running)
          /\ (BeatAnswered /\ fails = 1) =>
                signals' = Append(signals, StateSignal("connected"))
          /\ (w.pc = "backoff_sleep" /\ w'.pc # "backoff_sleep") => w'.pc = "top"]_vars
    /\ [](w.pc = "done" => ~running)

\* the first heartbeat failed and the second was answered: the label went to
\* Reconnecting and is back at Connected
C21_Witness ==
    /\ effort = 1 + AnsweredCost
    /\ fails = 0
    /\ round.beat = "ok"
    /\ conn_label = LabelOf("connected")
    /\ running

\* no message for the caller of thread t's poll was built since the poll began,
\* and none was pending when it began
StayedEmpty(t) ==
    /\ loc[t].atStart = <<>>
    /\ \A ref \in 1..Len(heap) : \A k \in 1..Len(heap[ref]) :
           heap[ref][k].to = loc[t].caller => heap[ref][k].ts < loc[t].began

\* C22: a poll with a timeout of N seconds, N in 1..30, whose caller's mailbox
\* stays empty for the whole request, returns an empty list, removes nothing,
\* and returns when N s or more and less than N + 0.5 s have passed.
C22_EmptyPollTiming ==
    [][\A t \in Threads :
          (Returns(t) /\ pc[t] \in PollPcs /\ StayedEmpty(t)
             /\ TimeoutOf(loc[t].query.timeout) \in 1..30) =>
              /\ resp'.code = 200 /\ resp'.ok /\ resp'.messages = <<>>
              /\ UNCHANGED Stores
              /\ now - loc[t].began >= TimeoutOf(loc[t].query.timeout) * 1000
              /\ now - loc[t].began < TimeoutOf(loc[t].query.timeout) * 1000 + 500]_vars

\* a poll of 3 s begun at 20 s was answered empty at 23.2 s, after an earlier poll
\* had drained the message the peer sent
C22_Witness ==
    /\ Len(hist) >= 3
    /\ hist[Len(hist)].kind = "poll"
    /\ hist[Len(hist)].who = LocalUser
    /\ hist[Len(hist)].ids = <<>>
    /\ resp.op = "poll"
    /\ resp.messages = <<>>
    /\ \E i \in Polls(LocalUser) : hist[i].ids # <<>>
    /\ \A t \in Threads : pc[t] = "idle"
    /\ now = 20000 + 3200

\* the place of a request in the order of an iteration
StepRank(kind) ==
    CASE kind = "heartbeat" -> 1
      [] kind = "status" -> 2
      [] kind = "typing" -> 3
      [] kind = "poll" -> 4
      [] OTHER -> 0

\* C23: the requests of an iteration begin with the heartbeat and follow the
\* order heartbeat, status, typing, poll, each at most once; an iteration whose
\* heartbeat failed issues no other request.
C23_HeartbeatFirst ==
    /\ round.sent # <<>> => round.sent[1] = "heartbeat"
    /\ \A i, j \in 1..Len(round.sent) :
           i < j => (0 < StepRank(round.sent[i])
                       /\ StepRank(round.sent[i]) < StepRank(round.sent[j]))
    /\ round.beat = "failed" => round.sent = <<"heartbeat">>
    /\ w.pc \in {"status", "typing", "poll", "poll_wait"} => round.beat = "ok"

\* after an iteration whose heartbeat failed and that ended there, the next
\* iteration issued all four requests in order
C23_Witness ==
    /\ effort = 1 + AnsweredCost
    /\ round.beat = "ok"
    /\ round.sent = <<"heartbeat", "status", "typing", "poll">>
    /\ w.pc = "poll_wait"

\* the step issues a status request, a typing request or a message poll
StartsRequest ==
    /\ Len(round'.sent) = Len(round.sent) + 1
    /\ round'.sent[Len(round'.sent)] \in {"status", "typing", "poll"}

\* the step sends the worker into its backoff sleep
StartsBackoff == w.pc # "backoff_sleep" /\ w'.pc = "backoff_sleep"

\* C24: once stop() has been called the worker starts no status request, no typing
\* request, no message poll and no backoff sleep: it finishes at most the step
\* that was in progress and leaves the loop.
C24_NoStepAfterStop ==
    [][~running => (~StartsRequest /\ ~StartsBackoff)]_vars

\* the step issues a status request
AsksStatus ==
    /\ Len(round'.sent) = Len(round.sent) + 1
    /\ round'.sent[Len(round'.sent)] = "status"

\* C25: whatever the answers, two status requests in a row are issued in
\* iterations that began more than 7 s apart, and a status request answered with
\* success emits exactly one status update, which carries the mapping returned.
C25_StatusRateBounded ==
    [][AsksStatus =>
          /\ round.status_at >= 0 => w.now - round.status_at > 7 * 1000
          /\ (Len(round'.codes) > Len(round.codes) /\ resp'.op = "status" /\ resp'.ok) =>
                signals' = Append(signals, OnlineSignal(resp'.statuses))]_vars

\* how often id occurs in the sequence s
Count(id, s) == Cardinality({k \in 1..Len(s) : s[k] = id})

\* C26: every message a poll of the local user removed from the mailbox is in the
\* response on its way to the worker or has been emitted to the UI, exactly once:
\* a poll whose response the worker fails to receive loses no message.
C26_DrainedNeverLost ==
    \A i \in Polls(LocalUser) : \A k \in 1..Len(hist[i].ids) :
        Count(hist[i].ids[k], Surfaced) + Count(hist[i].ids[k], Ids(w.reply.messages)) = 1

\* the session identity of the request that enqueued message id
EnqueuedBy(id) ==
    LET i == CHOOSE j \in 1..Len(hist) : hist[j].kind = "send" /\ hist[j].ids = <<id>>
    IN  hist[i].by

\* C27: every message stored in mailbox r is addressed to r, has a non-empty to
\* and content, and has as from the session identity of the request that
\* enqueued it, whatever the body of that request said.
C27_StoredMessagesWellFormed ==
    \A r \in DOMAIN MESSAGE_QUEUES : \A k \in 1..Len(Mailbox(r)) :
        LET m == Mailbox(r)[k]
        IN  /\ m.to = r
            /\ m.to # <<>>
            /\ m.content # <<>>
            /\ \E j \in 1..Len(hist) : hist[j].kind = "send" /\ hist[j].ids = <<m.id>>
            /\ m.from = EnqueuedBy(m.id)
            /\ m.from \in SessionUsers

\* a send whose body named g as its sender was acknowledged, and the message in
\* g's mailbox carries the session user of the request
C27_Witness ==
    /\ resp.op = "send"
    /\ resp.ok
    /\ resp.req.from = JStr(G)
    /\ Mailbox(G) # <<>>
    /\ Mailbox(G)[Len(Mailbox(G))].from = resp.sess
    /\ resp.sess \in SessionUsers

\* C28: a user none of whose heartbeats was active is never reported away: while
\* the latest heartbeat is less than 20 s old the status is online, however long
\* ago the first heartbeat was.
C28_NeverActiveIsOnline ==
    [][AnsweredAtOnce("status") =>
          \A n \in DOMAIN resp'.statuses :
              (n \in SessionUsers /\ beat[n].hb >= 0 /\ beat[n].act < 0) =>
                  /\ resp'.statuses[n] # "away"
                  /\ now - beat[n].hb < 20 * 1000 => resp'.statuses[n] = "online"]_vars

\* a user whose first heartbeat is 5 minutes old and who has just sent another
\* one, neither of them active, is reported online
C28_Witness ==
    /\ resp.op = "status"
    /\ \E n \in DOMAIN resp.statuses :
          /\ n \in SessionUsers
          /\ beat[n].act < 0
          /\ beat[n].hb = now
          /\ now - beat[n].first >= 5 * 60 * 1000
          /\ resp.statuses[n] = "online"

\* C29: at every query time the online list and the status endpoint agree: a
\* name is in the online list if and only if its status at that instant is
\* online or away.
C29_OnlineListAgreesWithStatus ==
    [][AnsweredAtOnce("online") =>
          \A n \in AllNames : n \in resp'.online <=> StatusOf(n) # "offline"]_vars

\* the message m is in the transcript of some message window
InTranscript(wins, m) ==
    \E i \in 1..Len(wins) : \E k \in 1..Len(wins[i].transcript) :
        /\ wins[i].peer_screen_name = m.from
        /\ wins[i].transcript[k].sender = m.from
        /\ wins[i].transcript[k].text = m.content

\* the step is the UI thread handling a batch of incoming messages
HandlesBatch == signals # <<>> /\ Head(signals).sig = "messages" /\ signals' = Tail(signals)

\* C30: a message from a blocked sender is dropped whatever the muted flag: no
\* tray notification, no new message window, nothing in a transcript; a message
\* from a muted sender who is not blocked is put in the transcript of the
\* sender's window without a tray notification.
C30_BlockedDroppedMutedSilent ==
    [][HandlesBatch =>
          \A k \in 1..Len(Head(signals).msgs) :
              LET m == Head(signals).msgs[k]
              IN  /\ FlagsOf(m.from).blocked =>
                        /\ Count(m.id, tray') = 0
                        /\ HasWindow(open_msgs', m.from) <=> HasWindow(open_msgs, m.from)
                        /\ ~InTranscript(open_msgs', m)
                  /\ (FlagsOf(m.from).muted /\ ~FlagsOf(m.from).blocked) =>
                        /\ Count(m.id, tray') = 0
                        /\ InTranscript(open_msgs', m)]_vars

====
